---- MODULE Spec2Model ----
(***************************************************************************)
(* Model of the Telegram-to-web bridge bot (internal/bot/telegram_bot.go). *)
(* The repository carries three revisions of the bot: the two that are     *)
(* concatenated in telegram_bot.go (A: lines 1-600, B: lines 602-1394) and *)
(* the one in unnamed/part_000 (P).  The variable rev says which one runs. *)
(* Every inbound update is handled by its own task.  A task takes one step *)
(* per call into the user repository whose result another handler can      *)
(* change, so handlers interleave exactly where the Go code leaves the     *)
(* handler goroutine for the store.  Running handlers are anonymous: tasks *)
(* is the bag of their local states.                                       *)
(*                                                                         *)
(* Six specifications share the module.  Spec is the user store under      *)
(* concurrent command handlers.  Registry is the fan-out registry of the   *)
(* web server (internal/web) under concurrent register, deregister and     *)
(* publish calls.  Media is one media update handled against a store and   *)
(* a registry as Spec and Registry can leave them.  Proxy is the proxy     *)
(* gate applied to a URL.  Address is the URL generated for a media        *)
(* update.  Notice is one /start or /authorize with the notifications it   *)
(* sends, against a store as Spec can leave it.                            *)
(***************************************************************************)
EXTENDS Integers, FiniteSets, Bags, Sequences, TLC

\* ---- bounds --------------------------------------------------------------
MaxUsers == 2
MaxTasks == 2
MaxSessions == 3
MaxPublishes == 1
MaxRand == 2

\* ---- identifiers ---------------------------------------------------------
Users == 1..MaxUsers
\* ctx.Self.ID, the bot's own account
SelfID == MaxUsers + 1
\* a chat that is not a one-to-one user chat
GroupChat == MaxUsers + 2
\* ids that can be typed after /authorize, /deauthorize, /userinfo;
\* 0 is what ParseInt leaves behind when its error is ignored
TargetIds == 0..MaxUsers
Revisions == {"A", "B", "P"}

\* web sessions (transport handles) and the payloads of the publish calls
Sessions == 1..MaxSessions
\* a session is a connection opened for one chat: the first two belong to
\* chat 1 (two tabs of one user), the others to the other chats in turn
ChatOf(s) == IF s <= 2 THEN 1 ELSE ((s - 3) % (MaxUsers - 1)) + 2
Payloads == 1..MaxPublishes

VARIABLES rev, users, tasks, bootstrap, done
\* the fan-out registry: the session set of every chat, what every session
\* has received, the publish calls in progress, the number of calls so far
VARIABLES sessions, inbox, calls, published
\* the media update that has been handled
VARIABLES event
\* the proxy gate: the URL given and the URL put into the push payload
VARIABLES fileURL, proxiedURL
\* capability addressing: two media updates and the URLs generated for them
VARIABLES files, links
\* a command handled alone and the notification goroutine it started
VARIABLES command, notify
storeVars == <<rev, users, tasks, bootstrap, done>>
registryVars == <<sessions, inbox, calls, published>>
proxyVars == <<fileURL, proxiedURL>>
addressVars == <<files, links>>
noticeVars == <<command, notify>>
\* what the handlers over the user store leave alone
others == <<registryVars, event, proxyVars, addressVars, noticeVars>>
vars == <<rev, users, tasks, bootstrap, done, sessions, inbox, calls,
          published, event, fileURL, proxiedURL, files, links, command,
          notify>>

\* ---- the user repository (internal/data, not part of the sources) --------
UserRow(userID, chatID, isAuthorized, isAdmin) ==
    [userID |-> userID, chatID |-> chatID,
     isAuthorized |-> isAuthorized, isAdmin |-> isAdmin]

\* GetUserInfo returns (nil, sql.ErrNoRows) for an absent user
GetUserInfo(userID) ==
    LET found == {r \in users : r.userID = userID}
    IN  [user |-> found, err |-> IF found = {} THEN "ErrNoRows" ELSE "nil"]

\* any repository call can fail with a storage error
StorageFailure == [user |-> {}, err |-> "StorageError"]

IsFirstUserWithoutAdmin == ~\E r \in users : r.isAdmin

IsFirstUser == users = {}

StoreUserInfoNoKey(row) == users \cup {row}

\* insert of a new row; userID is unique, a second row for it is refused
StoreUserInfo(row) ==
    IF \E r \in users : r.userID = row.userID THEN users ELSE users \cup {row}

SetFlags(userID, isAuthorized, isAdmin) ==
    {IF r.userID = userID
        THEN [r EXCEPT !.isAuthorized = isAuthorized, !.isAdmin = isAdmin]
        ELSE r : r \in users}

AuthorizeUser(userID, isAdmin) == SetFlags(userID, TRUE, isAdmin)

DeauthorizeUserDelete(userID) == {r \in users : r.userID # userID}

DeauthorizeUser(userID) == SetFlags(userID, FALSE, FALSE)

\* ---- the fan-out registry (internal/web, not part of the sources) --------
\* chatID -> set of connected sessions; nothing is registered at start
NoSessions == [chatID \in Users |-> {}]

NoInbox == [s \in Sessions |-> {}]

RegisterOverwrite(registry, chatID, s) == [registry EXCEPT ![chatID] = {s}]

\* register and deregister run under the registry's lock: one step each
Register(registry, chatID, s) == [registry EXCEPT ![chatID] = @ \cup {s}]

DeregisterStrict(registry, chatID, s) ==
    IF s \in registry[chatID]
      THEN [registry EXCEPT ![chatID] = @ \ {s}]
      ELSE [registry EXCEPT ![chatID] = {}]

Deregister(registry, chatID, s) == [registry EXCEPT ![chatID] = @ \ {s}]

SessionsForAll(registry, chatID) == UNION {registry[c] : c \in Users}

SessionsForOrAll(registry, chatID) ==
    IF registry[chatID] = {} THEN SessionsForAll(registry, chatID)
    ELSE registry[chatID]

\* the session set publish looks up
SessionsFor(registry, chatID) == registry[chatID]

ReplayOnRegister(chatID, s) == [inbox EXCEPT ![s] = @ \cup (1..published)]

\* what a session finds on registering: nothing is queued for it
InboxOnRegister(chatID, s) == inbox

RemainingAbort(pending, s, ok) == IF ok THEN pending \ {s} ELSE {}

\* the sessions publish has still to send to, after the send to s
Remaining(pending, s, ok) == pending \ {s}

\* a publish call: the payload id, the chat, the session set looked up, the
\* sessions not yet sent to, those whose send failed, and what the call
\* hands back to the Orchestrator
PublishCall(id, chatID, snap) ==
    [id |-> id, chat |-> chatID, snap |-> snap, pending |-> snap,
     failed |-> {}, err |-> "nil"]

\* the media update that was handled: its chat, the error of the handler's
\* lookup, the path the handler took and what it did on it, in order;
\* whether the reply with the URL failed, what became of the forward to the
\* log channel and whether the process went down
NoEvent == [chat |-> 0, kind |-> "none", err |-> "nil", out |-> "none",
            did |-> <<>>, replyFails |-> FALSE, audit |-> "off", crashed |-> FALSE]

RegistryIdle ==
    /\ sessions = NoSessions
    /\ inbox = NoInbox
    /\ calls = {}
    /\ published = 0

ProxyIdle ==
    /\ fileURL = <<>>
    /\ proxiedURL = <<>>

AddressIdle ==
    /\ files = <<>>
    /\ links = <<>>

\* no command handled yet, no notification goroutine started
NoCommand == [kind |-> "none", pc |-> "none"]

NoNotify == [pc |-> "none"]

NoticeIdle ==
    /\ command = NoCommand
    /\ notify = NoNotify

\* ---- command arguments ---------------------------------------------------
\* strings.Fields(text): n is len(args), num says whether args[1] parses
Args == {[n |-> 1, num |-> FALSE, id |-> 0], [n |-> 2, num |-> FALSE, id |-> 0]}
          \cup {[n |-> 2, num |-> TRUE, id |-> i] : i \in TargetIds}

\* the argument checks of /authorize, /deauthorize and /userinfo
ParseTarget(r, args) ==
    IF args.n < 2 THEN [out |-> "usage", id |-> 0]
    ELSE IF ~args.num /\ r \in {"A", "B"} THEN [out |-> "invalid", id |-> 0]
    ELSE [out |-> "go", id |-> args.id]

AdminCheckNone(r, res) == IF r = "P" /\ res.user = {} THEN "panic" ELSE "pass"

\* the admin check at the head of /authorize and /deauthorize
AdminCheck(r, res) ==
    LET isAdmin == \E u \in res.user : u.isAdmin
    IN  CASE r = "A" -> IF res.err # "nil" \/ ~isAdmin THEN "denied" ELSE "pass"
          [] r = "B" -> IF res.err # "nil" THEN "failed"
                        ELSE IF ~isAdmin THEN "denied" ELSE "pass"
          [] r = "P" -> IF res.user = {} THEN "panic"
                        ELSE IF ~isAdmin THEN "denied" ELSE "pass"

\* ---- tasks ---------------------------------------------------------------
\* the locals of a running handler; existed and actorAdmin remember what the
\* store held when the handler looked: whether the /start user had a row,
\* whether the acting user of an admin command was an admin
Task == [kind |-> "none", pc |-> "none", user |-> 0, isFirst |-> FALSE,
         target |-> 0, grant |-> FALSE, existed |-> FALSE, actorAdmin |-> FALSE]

\* the record of the handler that has just returned: out is the reply (or
\* error) it ended with, stage the call it returned after, err the error of
\* its last repository call, user the /start user or the target typed after
\* the admin command, exists and wasAdmin whether that user had a row and
\* was an admin when the handler read or wrote it
NoDone == [kind |-> "none", user |-> 0, grant |-> FALSE, out |-> "none",
           stage |-> "none", err |-> "nil", actorAdmin |-> FALSE,
           exists |-> FALSE, wasAdmin |-> FALSE]

Running == BagToSet(tasks)

\* a task is free to pick up the next update
Free == done = NoDone /\ BagCardinality(tasks) < MaxTasks

Ready(me, kind, pc) ==
    done = NoDone /\ me \in Running /\ me.kind = kind /\ me.pc = pc

\* a handler begins and returns within one step
Once(record) ==
    /\ tasks' = tasks
    /\ done' = record

Spawn(me) ==
    /\ tasks' = tasks (+) SetToBag({me})
    /\ done' = done

Goto(me, next) ==
    /\ tasks' = (tasks (-) SetToBag({me})) (+) SetToBag({next})
    /\ done' = done

Finish(me, record) ==
    /\ tasks' = tasks (-) SetToBag({me})
    /\ done' = record

Init ==
    /\ rev \in Revisions
    /\ users = {}
    /\ tasks = EmptyBag
    /\ bootstrap = 0
    /\ done = NoDone
    /\ RegistryIdle
    /\ event = NoEvent
    /\ ProxyIdle
    /\ AddressIdle
    /\ NoticeIdle

\* the dispatcher takes the handler's return value
Return ==
    /\ done # NoDone
    /\ done' = NoDone
    /\ UNCHANGED <<rev, users, tasks, bootstrap, others>>

\* ---- /start --------------------------------------------------------------
StartDone(user, stage, out) ==
    [NoDone EXCEPT !.kind = "start", !.user = user, !.stage = stage, !.out = out]

\* the welcome, and the notice that follows it for an unauthorized user
StartReply(isAuthorized) == IF isAuthorized THEN "welcome" ELSE "welcome+notice"

MustStoreAlways(res) == TRUE

MustStore(res) == res.user = {}

\* GetUserInfo; for a user who has a row the rest of the handler reads
\* IsFirstUser, takes the stored flags and replies, without a store write
handleStartCommand_GetUserInfo ==
    /\ Free
    /\ \E user \in Users \cup {SelfID} :
         IF user = SelfID
           THEN Once(StartDone(user, "lookup", "ignored"))
           ELSE \E res \in {GetUserInfo(user), StorageFailure} :
                  IF res.err = "StorageError"
                    THEN Once([StartDone(user, "lookup", "error")
                                 EXCEPT !.err = res.err])
                  ELSE IF MustStore(res)
                    THEN Spawn([Task EXCEPT !.kind = "start", !.pc = "first",
                                            !.user = user,
                                            !.existed = res.user # {}])
                  ELSE \E firstFails \in BOOLEAN :
                         IF firstFails /\ rev \in {"A", "B"}
                           THEN Once([StartDone(user, "first", "error")
                                        EXCEPT !.exists = TRUE,
                                               !.err = "StorageError"])
                           ELSE Once([StartDone(user, "reply",
                                         StartReply(\E u \in res.user : u.isAuthorized))
                                        EXCEPT !.exists = TRUE])
    /\ UNCHANGED <<rev, users, bootstrap, others>>

\* IsFirstUser for a user without a row; revision P drops the error
handleStartCommand_IsFirstUser(me) ==
    /\ Ready(me, "start", "first")
    /\ \E fails \in BOOLEAN :
         IF fails /\ rev \in {"A", "B"}
           THEN Finish(me, [StartDone(me.user, "first", "error")
                              EXCEPT !.exists = me.existed, !.err = "StorageError"])
           ELSE Goto(me, [me EXCEPT !.pc = "store",
                                    !.isFirst = ~fails /\ IsFirstUser])
    /\ UNCHANGED <<rev, users, bootstrap, others>>

NewUserFlagsAdminOnly(isFirstUser) ==
    [isAuthorized |-> FALSE, isAdmin |-> isFirstUser]

NewUserFlags(isFirstUser) ==
    [isAuthorized |-> isFirstUser, isAdmin |-> isFirstUser]

\* StoreUserInfo for the new user, then the welcome
handleStartCommand_Store(me) ==
    /\ Ready(me, "start", "store")
    /\ LET flags == NewUserFlags(me.isFirst)
           row == UserRow(me.user, me.user, flags.isAuthorized, flags.isAdmin)
       IN  \E fails \in BOOLEAN :
             LET after == IF fails THEN users ELSE StoreUserInfo(row)
                 err == IF fails THEN "StorageError"
                        ELSE IF after = users THEN "Conflict" ELSE "nil"
                 record == [StartDone(me.user, "store", "error")
                              EXCEPT !.exists = me.existed, !.err = err]
             IN  /\ users' = after
                 /\ bootstrap' = IF err = "nil" /\ me.isFirst
                                   THEN bootstrap + 1
                                   ELSE bootstrap
                 /\ IF err # "nil" /\ rev \in {"A", "B"}
                      THEN Finish(me, record)
                      ELSE Finish(me, [record EXCEPT
                                         !.out = StartReply(flags.isAuthorized)])
    /\ UNCHANGED <<rev, others>>

\* ---- /authorize and /deauthorize -----------------------------------------
\* the handler up to its UPDATE: the admin check, then the arguments
AdminCommand_Begin(kind, user, args, grant, res) ==
    LET check == AdminCheck(rev, res)
        parsed == ParseTarget(rev, args)
        isAdmin == \E r \in users : r.userID = user /\ r.isAdmin
        record == [NoDone EXCEPT !.kind = kind, !.stage = "check",
                                 !.actorAdmin = isAdmin, !.err = res.err]
    IN  IF check # "pass" THEN [record EXCEPT !.out = check]
        ELSE IF parsed.out # "go" THEN [record EXCEPT !.out = parsed.out]
        ELSE [Task EXCEPT !.kind = kind, !.pc = "mutate", !.target = parsed.id,
                          !.grant = grant, !.actorAdmin = isAdmin]

AdminCommand_Check(kind) ==
    /\ Free
    /\ \E step \in UNION {{AdminCommand_Begin(kind, user, args, grant, res) :
                             args \in Args,
                             grant \in IF kind = "authorize" THEN BOOLEAN ELSE {FALSE},
                             res \in {GetUserInfo(user), StorageFailure}} :
                          user \in Users} :
         IF "pc" \in DOMAIN step THEN Spawn(step) ELSE Once(step)
    /\ UNCHANGED <<rev, users, bootstrap, others>>

handleAuthorizeUser_Check == AdminCommand_Check("authorize")

handleDeauthorizeUser_Check == AdminCommand_Check("deauthorize")

\* the repository's UPDATE, what the handler does with its error, the note
\* to the target (revisions A and B) and the confirmation to the admin
AdminCommand_Mutate(me, target, after) ==
    LET found == GetUserInfo(target).user
        exists == found # {}
        record == [NoDone EXCEPT !.kind = me.kind, !.stage = "mutate",
                                 !.user = me.target, !.grant = me.grant,
                                 !.actorAdmin = me.actorAdmin,
                                 !.exists = exists,
                                 !.wasAdmin = \E u \in found : u.isAdmin]
    IN  /\ \E err \in {"nil", "StorageError"} \cup
                      (IF exists THEN {} ELSE {"NotFound"}) :
             /\ users' = IF err = "nil" THEN after ELSE users
             /\ IF err # "nil" /\ rev \in {"A", "B"}
                  THEN Finish(me, [record EXCEPT !.out = "failed", !.err = err])
                  ELSE Finish(me, [record EXCEPT !.out = "ok", !.err = err])
        /\ UNCHANGED <<rev, bootstrap, others>>

AuthorizeGrantDropped(me) == FALSE

\* isAdmin := len(args) > 2 && args[2] == "admin"
AuthorizeGrant(me) == me.grant

handleAuthorizeUser_Mutate(me) ==
    /\ Ready(me, "authorize", "mutate")
    /\ AdminCommand_Mutate(me, me.target, AuthorizeUser(me.target, AuthorizeGrant(me)))

DeauthorizeOther(me) == (me.target % MaxUsers) + 1

DeauthorizeTarget(me) == me.target

handleDeauthorizeUser_Mutate(me) ==
    /\ Ready(me, "deauthorize", "mutate")
    /\ AdminCommand_Mutate(me, DeauthorizeTarget(me),
                           DeauthorizeUser(DeauthorizeTarget(me)))

\* ---- read-only handlers --------------------------------------------------
isUserChat(chatID) == chatID \in Users

MediaOutcomeOpen(chatID, media, res) ==
    IF rev = "P" THEN IF media = "url" THEN "url" ELSE "nil"
    ELSE IF ~isUserChat(chatID) THEN "endgroups"
    ELSE media

\* the path a media update takes through the handler
MediaOutcome(chatID, media, res) ==
    LET authorized == \E u \in res.user : u.isAuthorized
    IN  IF rev = "P"
          THEN IF res.err # "nil" \/ ~authorized THEN "denied"
               ELSE IF media = "url" THEN "url" ELSE "nil"
          ELSE IF ~isUserChat(chatID) THEN "endgroups"
          ELSE IF res.err = "ErrNoRows" THEN "denied"
          ELSE IF res.err # "nil" THEN "error"
          ELSE IF ~authorized THEN "denied"
          ELSE media

handleMediaMessages ==
    /\ Free
    /\ \E out \in UNION {{MediaOutcome(chatID, media, res) :
                            media \in {"url", "unsupported"},
                            res \in {GetUserInfo(chatID), StorageFailure}} :
                         chatID \in Users \cup {GroupChat}} :
         Once([NoDone EXCEPT !.kind = "media", !.stage = "once", !.out = out])
    /\ UNCHANGED <<rev, users, bootstrap, others>>

\* the admin check at the head of /listusers and /userinfo
ReadCheck(r, res) ==
    IF r # "P" /\ (res.err # "nil" \/ ~\E u \in res.user : u.isAdmin)
      THEN "denied" ELSE "pass"

ListOutcome(res) ==
    IF ReadCheck(rev, res) # "pass" THEN "denied" ELSE "list"

handleListUsers ==
    /\ Free
    /\ \E out \in UNION {{ListOutcome(res) :
                            res \in {GetUserInfo(user), StorageFailure}} :
                         user \in Users} :
         Once([NoDone EXCEPT !.kind = "list", !.stage = "once", !.out = out])
    /\ UNCHANGED <<rev, users, bootstrap, others>>

InfoOutcome(args, res, tres) ==
    LET parsed == ParseTarget(rev, args)
    IN  IF ReadCheck(rev, res) # "pass" THEN "denied"
        ELSE IF parsed.out # "go" THEN parsed.out
        ELSE IF tres.user = {} THEN "notfound"
        ELSE "info"

handleUserInfo ==
    /\ Free
    /\ \E out \in UNION {{InfoOutcome(ua[2], res, tres) :
                            res \in {GetUserInfo(ua[1]), StorageFailure},
                            tres \in {GetUserInfo(ua[2].id), StorageFailure}} :
                         ua \in Users \X Args} :
         Once([NoDone EXCEPT !.kind = "info", !.stage = "once", !.out = out])
    /\ UNCHANGED <<rev, users, bootstrap, others>>

Next ==
    \/ Return
    \/ handleStartCommand_GetUserInfo
    \/ handleAuthorizeUser_Check
    \/ handleDeauthorizeUser_Check
    \/ handleMediaMessages
    \/ handleListUsers
    \/ handleUserInfo
    \/ \E me \in Running :
         \/ handleStartCommand_IsFirstUser(me)
         \/ handleStartCommand_Store(me)
         \/ handleAuthorizeUser_Mutate(me)
         \/ handleDeauthorizeUser_Mutate(me)

Spec == Init /\ [][Next]_vars

\* ---- the fan-out registry under concurrent calls -------------------------
\* the user store at rest
StoreIdle ==
    /\ rev = "A"
    /\ users = {}
    /\ tasks = EmptyBag
    /\ bootstrap = 0
    /\ done = NoDone

RegistryInit ==
    /\ StoreIdle
    /\ RegistryIdle
    /\ event = NoEvent
    /\ ProxyIdle
    /\ AddressIdle
    /\ NoticeIdle

\* the transport registers a connection under the chat it was opened for
register ==
    /\ \E s \in Sessions :
         /\ sessions' = Register(sessions, ChatOf(s), s)
         /\ inbox' = InboxOnRegister(ChatOf(s), s)
    /\ UNCHANGED <<calls, published, storeVars, event, proxyVars, addressVars, noticeVars>>

\* the transport deregisters a connection on every disconnect it sees, also
\* one it has seen before
deregister ==
    /\ \E s \in Sessions :
         sessions' = Deregister(sessions, ChatOf(s), s)
    /\ UNCHANGED <<inbox, calls, published, storeVars, event, proxyVars, addressVars, noticeVars>>

\* publish looks up the session set of the chat (under the lock) ...
PublishMessage_Begin(chatID) ==
    /\ published < MaxPublishes
    /\ published' = published + 1
    /\ calls' = calls \cup {PublishCall(published + 1, chatID,
                                        SessionsFor(sessions, chatID))}
    /\ UNCHANGED <<sessions, inbox>>

PublishMessage ==
    /\ \E chatID \in Users : PublishMessage_Begin(chatID)
    /\ UNCHANGED <<storeVars, event, proxyVars, addressVars, noticeVars>>

\* ... sends to one session after the other, each send on its own and free
\* to fail ...
PublishMessage_Send ==
    /\ \E call \in calls :
         \E s \in call.pending :
           \E ok \in BOOLEAN :
             /\ inbox' = IF ok THEN [inbox EXCEPT ![s] = @ \cup {call.id}]
                         ELSE inbox
             /\ calls' = (calls \ {call}) \cup
                           {[call EXCEPT !.pending = Remaining(@, s, ok),
                                         !.failed = IF ok THEN @ ELSE @ \cup {s}]}
    /\ UNCHANGED <<sessions, published, storeVars, event, proxyVars, addressVars, noticeVars>>

\* ... and returns to its caller
PublishMessage_Return ==
    /\ \E call \in calls :
         /\ call.pending = {}
         /\ calls' = calls \ {call}
    /\ UNCHANGED <<sessions, inbox, published, storeVars, event, proxyVars, addressVars, noticeVars>>

RegistryNext ==
    \/ register
    \/ deregister
    \/ PublishMessage
    \/ PublishMessage_Send
    \/ PublishMessage_Return

Registry == RegistryInit /\ [][RegistryNext]_vars

\* ---- one media update against a store and a registry --------------------
\* the records a user can have, and the stores the handlers can leave
Rows ==
    {UserRow(u, u, flags[1], flags[2]) :
       u \in Users, flags \in {<<FALSE, FALSE>>, <<TRUE, FALSE>>, <<TRUE, TRUE>>}}

Stores ==
    {rows \in SUBSET Rows :
       \A r1 \in rows : \A r2 \in rows : r1.userID = r2.userID => r1 = r2}

\* the registries the transport can leave: any set of open connections
Registries ==
    {[chatID \in Users |-> {s \in open : ChatOf(s) = chatID}] :
       open \in SUBSET Sessions}

MediaInit ==
    /\ rev \in Revisions
    /\ users \in Stores
    /\ tasks = EmptyBag
    /\ bootstrap = IF users = {} THEN 0 ELSE 1
    /\ done = NoDone
    /\ sessions \in Registries
    /\ inbox = NoInbox
    /\ calls = {}
    /\ published = 0
    /\ event = NoEvent
    /\ ProxyIdle
    /\ AddressIdle
    /\ NoticeIdle

\* what a media update can carry: a file that utils.FileFromMedia extracts,
\* or none, and then a web page without preview and with a link in the
\* text, a web page with a preview and a link, a web page without preview
\* and without link, or nothing of the kind; the link can be one to a file
\* hosting page
MediaKinds ==
    {"native", "emptyPageLink", "emptyPageHostingLink", "pageLink",
     "emptyPage", "none"}

HasLink(kind) ==
    kind \in {"emptyPageLink", "emptyPageHostingLink", "pageLink"}

\* FileFromMedia and, in revisions A and B, the fallback to the link of a
\* web page without preview, after which revision B warns of a file hosting
\* page; revision P takes documents and videos only
Extract(r, kind) ==
    IF kind = "native" THEN "url"
    ELSE IF r = "B" /\ kind = "emptyPageHostingLink" THEN "hostinglink"
    ELSE IF r \in {"A", "B"}
              /\ kind \in {"emptyPageLink", "emptyPageHostingLink"}
      THEN "link"
    ELSE "unsupported"

MediaEffectsPublishFirst(r, out, replyFails) ==
    CASE out = "denied" -> <<"denial">>
      [] out = "unsupported" -> <<"unsupported">>
      [] out \in {"url", "link"} -> <<"publish", out>>
      [] out = "hostinglink" -> <<"publish", "link", "warning">>
      [] OTHER -> <<>>

\* what the handler does on the path out, in the order of the code: the
\* replies it sends and the publish.  Revisions A and B publish after the
\* reply with the URL and only if that reply was sent; revision P pushes
\* first and replies after
MediaEffects(r, out, replyFails) ==
    CASE out = "denied" -> <<"denial">>
      [] out = "unsupported" -> <<"unsupported">>
      [] out = "url" /\ r = "P" -> <<"publish", "url">>
      [] out = "url" /\ r # "P" /\ replyFails -> <<"url">>
      [] out = "url" /\ r # "P" /\ ~replyFails -> <<"url", "publish">>
      [] out = "link" /\ replyFails -> <<"link">>
      [] out = "link" /\ ~replyFails -> <<"link", "publish">>
      [] out = "hostinglink" /\ replyFails -> <<"link">>
      [] out = "hostinglink" /\ ~replyFails -> <<"link", "publish", "warning">>
      [] OTHER -> <<>>

Publishes(did) == \E i \in 1..Len(did) : did[i] = "publish"

\* the goroutine that forwards the message to the log channel: not started
\* (no log channel configured), or ended by a failed forward, by a forward
\* without a message id, by a failed lookup of the user, by a failed send
\* of the info message, or ended well, or still running
AuditOutcomes ==
    {"off", "forwardFails", "noMessageID", "lookupFails", "sendFails", "sent",
     "running"}

\* revisions A and B start it once the user has passed the access check;
\* revision P has none
Audits(r, out) ==
    IF r \in {"A", "B"} /\ out \in {"url", "link", "hostinglink", "unsupported"}
      THEN AuditOutcomes ELSE {"off"}

\* revision A drops the error of the lookup and reads the fields of the nil
\* user; the panic of a goroutine ends the process.  Revision B returns
AuditPanics(r, audit) == r = "A" /\ audit = "lookupFails"

\* the handler of a media update up to its call of publish; a process that
\* goes down with the goroutine stops the handler wherever it is
handleMediaMessages_Effects ==
    /\ event = NoEvent
    /\ \E chatID \in Users \cup {GroupChat} :
         \E res \in {GetUserInfo(chatID), StorageFailure} :
           \E kind \in MediaKinds :
             \E replyFails \in BOOLEAN :
               LET out == MediaOutcome(chatID, Extract(rev, kind), res)
                   effects == MediaEffects(rev, out, replyFails)
               IN  \E audit \in Audits(rev, out) :
                     \E n \in IF AuditPanics(rev, audit)
                                THEN 0..Len(effects) ELSE {Len(effects)} :
                       LET did == SubSeq(effects, 1, n)
                       IN  /\ event' = [chat |-> chatID, kind |-> kind,
                                        err |-> res.err,
                                        out |-> out, did |-> did,
                                        replyFails |-> replyFails,
                                        audit |-> audit,
                                        crashed |-> AuditPanics(rev, audit)]
                           /\ IF Publishes(did)
                                THEN PublishMessage_Begin(chatID)
                                ELSE UNCHANGED registryVars
    /\ UNCHANGED <<storeVars, proxyVars, addressVars, noticeVars>>

MediaNext ==
    \/ handleMediaMessages_Effects
    \/ PublishMessage_Send
    \/ PublishMessage_Return

Media == MediaInit /\ [][MediaNext]_vars

\* ---- the proxy gate -----------------------------------------------------
\* strings are sequences of characters, as the Go code matches them
Scheme == [http |-> <<"h", "t", "t", "p">>, https |-> <<"h", "t", "t", "p", "s">>, ftp |-> <<"f", "t", "p">>]

Localhost == <<"l", "o", "c", "a", "l", "h", "o", "s", "t">>

Loopback == <<"1", "2", "7", ".", "0", ".", "0", ".", "1">>

\* the hosts of the URLs tried: the two loopback names, the host of the
\* service and a third party
Hosts == {Localhost, Loopback, <<"b", "o", "t", ".", "i", "o">>, <<"c", "d", "n", ".", "i", "o">>}

\* config.Port and config.BaseURL of the running service
Port == <<"8", "0", "8", "0">>

BaseURL == <<"h", "t", "t", "p", "s", ":", "/", "/", "b", "o", "t", ".", "i", "o">>

Ports == {<<>>, Port, <<"9", "0", "9", "0">>}

Paths == {<<>>, <<"/", "v", ".", "m", "p", "4">>, <<"/">> \o Localhost}

\* a URL by its parts, and the text the handlers pass around
URLs == [scheme : DOMAIN Scheme, host : Hosts, port : Ports, path : Paths]

Text(u) ==
    Scheme[u.scheme] \o <<":", "/", "/">> \o u.host
      \o (IF u.port = <<>> THEN <<>> ELSE <<":">> \o u.port) \o u.path

\* strings.HasPrefix, strings.Contains
HasPrefix(str, prefix) ==
    Len(prefix) <= Len(str) /\ SubSeq(str, 1, Len(prefix)) = prefix

Contains(str, substr) ==
    \E i \in 0..(Len(str) - Len(substr)) :
      SubSeq(str, i + 1, i + Len(substr)) = substr

\* url.QueryEscape on the characters that occur: letters, digits and the
\* dot stay, the others become their percent code
EscapeChar(c) ==
    CASE c = ":" -> <<"%", "3", "A">>
      [] c = "/" -> <<"%", "2", "F">>
      [] c = "?" -> <<"%", "3", "F">>
      [] c = "=" -> <<"%", "3", "D">>
      [] c = "%" -> <<"%", "2", "5">>
      [] OTHER -> <<c>>

RECURSIVE QueryEscape(_)
QueryEscape(str) ==
    IF str = <<>> THEN <<>>
    ELSE EscapeChar(Head(str)) \o QueryEscape(Tail(str))

ProxyPathAbsolute ==
    <<"h", "t", "t", "p", ":", "/", "/", "p", "x", "/", "?", "u", "r", "l", "=">>

ProxyPath == <<"/", "p", "r", "o", "x", "y", "?", "u", "r", "l", "=">>

wrapWithProxyIfNeeded(url) ==
    IF HasPrefix(url, Scheme.http \o <<":", "/", "/">>)
         \/ HasPrefix(url, Scheme.https \o <<":", "/", "/">>)
      THEN IF /\ ~Contains(url, <<":">> \o Port)
              /\ ~Contains(url, Localhost)
              /\ ~HasPrefix(url, BaseURL)
             THEN ProxyPath \o QueryEscape(url)
             ELSE url
      ELSE url

ProxyInit ==
    /\ StoreIdle
    /\ RegistryIdle
    /\ event = NoEvent
    /\ fileURL \in URLs
    /\ proxiedURL = <<>>
    /\ AddressIdle
    /\ NoticeIdle

\* the push payload takes the URL through the gate
constructWebSocketMessage ==
    /\ proxiedURL = <<>>
    /\ proxiedURL' = wrapWithProxyIfNeeded(Text(fileURL))
    /\ UNCHANGED <<storeVars, registryVars, event, fileURL, addressVars,
                   noticeVars>>

ProxyNext == constructWebSocketMessage

Proxy == ProxyInit /\ [][ProxyNext]_vars

\* ---- capability addressing ------------------------------------------------
\* strconv.FormatInt to base 10, as fmt's %d prints
Digits == <<"0", "1", "2", "3", "4", "5", "6", "7", "8", "9">>

RECURSIVE FormatInt(_)
FormatInt(n) ==
    IF n < 10 THEN <<Digits[n + 1]>>
    ELSE FormatInt(n \div 10) \o <<Digits[(n % 10) + 1]>>

\* the descriptors tried: names and types that end where a number can go on
FileNames == {<<"a">>, <<"a", "1">>}

FileSizes == {2, 12}

MimeTypes == {<<"m">>, <<"m", "4">>}

FileIDs == {1, 2}

MessageIDs == {1, 2}

Files == [fileName : FileNames, fileSize : FileSizes, mimeType : MimeTypes,
          id : FileIDs]

\* a media update: the chat, the message and the file it carries
MediaUpdates == [chat : Users, messageID : MessageIDs, file : Files]

\* rand.Intn: any of the values below the limit
RandParts == 0..(MaxRand - 1)

\* utils.PackFile (internal/utils, not part of the sources): the four fields
\* in a fixed order, each behind its length
Field(str) == FormatInt(Len(str)) \o <<":">> \o str

PackFilePlain(fileName, fileSize, mimeType, fileID) ==
    fileName \o FormatInt(fileSize) \o mimeType \o FormatInt(fileID)

PackFile(fileName, fileSize, mimeType, fileID) ==
    Field(fileName) \o Field(FormatInt(fileSize)) \o Field(mimeType)
      \o Field(FormatInt(fileID))

\* utils.GetShortHash (internal/utils, not part of the sources): the digest
\* of the bytes cut to the length, kept as a term, its value unknown
GetShortHash(bytes, length) == [digestOf |-> bytes, length |-> length]

\* config.HashLength
HashLength == 6

\* the URL by the parts that fmt.Sprintf puts between the slashes.  A and B
\* address the message by a token of the file; P addresses the file of the
\* chat and appends a random number
generateFileURL(r, update, randPart) ==
    IF r = "P"
      THEN [base |-> BaseURL \o <<"/", "s", "t", "r", "e", "a", "m">>,
            chatID |-> FormatInt(update.chat),
            fileID |-> FormatInt(update.file.id),
            rand |-> FormatInt(randPart)]
      ELSE [base |-> BaseURL,
            messageID |-> FormatInt(update.messageID),
            hash |-> GetShortHash(PackFile(update.file.fileName,
                                           update.file.fileSize,
                                           update.file.mimeType,
                                           update.file.id), HashLength)]

AddressInit ==
    /\ rev \in Revisions
    /\ users = {}
    /\ tasks = EmptyBag
    /\ bootstrap = 0
    /\ done = NoDone
    /\ RegistryIdle
    /\ event = NoEvent
    /\ ProxyIdle
    /\ files \in [1..2 -> MediaUpdates]
    /\ links = <<>>
    /\ NoticeIdle

\* the media handler generates the URL of each of the two updates
handleMediaMessages_generateFileURL ==
    /\ links = <<>>
    /\ \E r1 \in RandParts :
         \E r2 \in RandParts :
           links' = <<generateFileURL(rev, files[1], r1),
                      generateFileURL(rev, files[2], r2)>>
    /\ UNCHANGED <<storeVars, registryVars, event, proxyVars, files,
                   noticeVars>>

AddressNext == handleMediaMessages_generateFileURL

Address == AddressInit /\ [][AddressNext]_vars

\* ---- one command and the notifications it sends --------------------------
\* a user the store has never seen
Newcomer == MaxUsers + 3

\* GetAllAdmins (internal/data, not part of the sources)
GetAllAdmins == {r \in users : r.isAdmin}

\* if !isAdmin { go b.notifyAdminsAboutNewUser(user, chatID) }
MustNotify(flags) == ~flags.isAdmin

\* the goroutine is detached: nothing of it comes back to the handler
NotifyErrorJoined(n) ==
    IF n.pc = "done" /\ (n.err # "nil" \/ n.failed # {}) THEN "error" ELSE "nil"

NotifyError(n) == "nil"

\* the admins the loop passes over
SkipsAdmin(r, admin, newUser, newUsersChatID) ==
    IF r = "A" THEN admin.userID = newUser
    ELSE admin.userID = newUser /\ admin.userID = newUsersChatID

NextAdminsAbort(pending, admin, ok) == IF ok THEN pending \ {admin} ELSE {}

\* a failed send is logged (dropped in revision P) and the loop goes on
NextAdmins(pending, admin, ok) == pending \ {admin}

AuthorizeReplyStrict(noteErr) == IF noteErr = "SendError" THEN "failed" ELSE "ok"

\* the error of the note to the target is logged; the confirmation follows
AuthorizeReply(noteErr) == "ok"

NoticeInit ==
    /\ rev \in Revisions
    /\ users \in Stores
    /\ tasks = EmptyBag
    /\ bootstrap = IF users = {} THEN 0 ELSE 1
    /\ done = NoDone
    /\ RegistryIdle
    /\ event = NoEvent
    /\ ProxyIdle
    /\ AddressIdle
    /\ NoticeIdle

\* /start up to the end of the branch for a user without a row: the lookup,
\* IsFirstUser, StoreUserInfo and the start of the goroutine.  Revision P
\* drops the errors of IsFirstUser and StoreUserInfo and goes on
handleStartCommand_Register ==
    /\ command = NoCommand
    /\ \E user \in Users \cup {Newcomer} :
         \E res \in {GetUserInfo(user), StorageFailure} :
           \E firstFails \in BOOLEAN :
             \E storeFails \in BOOLEAN :
              \E chatID \in {user, GroupChat} :
               LET strict == rev \in {"A", "B"}
                   isFirstUser == ~firstFails /\ IsFirstUser
                   store == MustStore(res)
                   flags == IF store THEN NewUserFlags(isFirstUser)
                            ELSE [isAuthorized |-> \E u \in res.user : u.isAuthorized,
                                  isAdmin |-> \E u \in res.user : u.isAdmin]
                   row == UserRow(user, chatID, flags.isAuthorized, flags.isAdmin)
                   aborted == \/ res.err = "StorageError"
                              \/ strict /\ firstFails
                              \/ strict /\ store /\ storeFails
                   stored == ~aborted /\ store /\ ~storeFails
               IN  /\ users' = IF stored THEN StoreUserInfo(row) ELSE users
                   /\ bootstrap' = IF stored /\ isFirstUser THEN bootstrap + 1
                                   ELSE bootstrap
                   /\ command' = [kind |-> "start", user |-> user,
                                  chatID |-> chatID,
                                  pc |-> IF aborted THEN "returned" ELSE "reply",
                                  stored |-> stored,
                                  isAuthorized |-> flags.isAuthorized,
                                  isAdmin |-> flags.isAdmin,
                                  replyErr |-> "none",
                                  did |-> IF aborted THEN <<>>
                                          ELSE <<"register">>,
                                  welcomeURL |-> <<>>,
                                  out |-> IF aborted THEN "error" ELSE "none"]
                   /\ notify' = IF ~aborted /\ store /\ MustNotify(flags)
                                  THEN [pc |-> "admins", newUser |-> user,
                                        chatID |-> chatID, admins |-> {},
                                        pending |-> {},
                                        sent |-> {}, failed |-> {},
                                        err |-> "nil"]
                                  ELSE notify
    /\ UNCHANGED <<rev, tasks, done, registryVars, event, proxyVars,
                   addressVars>>

\* the entry URL in the welcome: fmt.Sprintf("%s/%d", BaseURL, chatID) in
\* revisions A and P; the welcome of revision B has no link
WelcomeURL(r, chatID) ==
    IF r = "B" THEN <<>> ELSE BaseURL \o <<"/">> \o FormatInt(chatID)

\* the welcome and, for a user who is not authorized, the notice.  Revisions
\* A and B return the error of the welcome, revision P drops it
handleStartCommand_Reply ==
    /\ command.kind = "start" /\ command.pc = "reply"
    /\ \E welcomeFails \in BOOLEAN :
         \E noticeFails \in BOOLEAN :
           LET welcomeErr == welcomeFails /\ rev \in {"A", "B"}
               noticeErr == ~command.isAuthorized /\ noticeFails
               replyErr == IF welcomeErr \/ (~welcomeErr /\ noticeErr)
                             THEN "SendError" ELSE "nil"
           IN  command' = [command EXCEPT
                             !.pc = "returned",
                             !.replyErr = replyErr,
                             !.did = @ \o <<"welcome">>
                                       \o (IF welcomeErr \/ command.isAuthorized
                                             THEN <<>> ELSE <<"notice">>),
                             !.welcomeURL = WelcomeURL(rev, command.chatID),
                             !.out = IF replyErr # "nil"
                                          \/ NotifyError(notify) # "nil"
                                       THEN "error"
                                       ELSE StartReply(command.isAuthorized)]
    /\ UNCHANGED <<storeVars, registryVars, event, proxyVars, addressVars,
                   notify>>

\* the goroutine reads the admins; on an error revisions A and B return,
\* revision P loops over the empty list
notifyAdminsAboutNewUser_GetAllAdmins ==
    /\ notify.pc = "admins"
    /\ \E fails \in BOOLEAN :
         LET admins == IF fails THEN {} ELSE GetAllAdmins
             pending == {a.userID : a \in {r \in admins :
                           ~SkipsAdmin(rev, r, notify.newUser, notify.chatID)}}
         IN  notify' = [notify EXCEPT
                          !.pc = IF pending = {} THEN "done" ELSE "send",
                          !.admins = {a.userID : a \in admins},
                          !.pending = pending,
                          !.err = IF fails THEN "StorageError" ELSE "nil"]
    /\ UNCHANGED <<storeVars, registryVars, event, proxyVars, addressVars,
                   command>>

\* one pass of the loop: SendMessage to the next admin
notifyAdminsAboutNewUser_Send ==
    /\ notify.pc = "send"
    /\ \E admin \in notify.pending :
         \E ok \in BOOLEAN :
           LET pending == NextAdmins(notify.pending, admin, ok)
           IN  notify' = [notify EXCEPT
                            !.pc = IF pending = {} THEN "done" ELSE "send",
                            !.pending = pending,
                            !.sent = @ \cup {admin},
                            !.failed = IF ok THEN @ ELSE @ \cup {admin}]
    /\ UNCHANGED <<storeVars, registryVars, event, proxyVars, addressVars,
                   command>>

\* while the goroutine waits for its turn, the handler of another update
\* runs: an admin's /authorize and its UPDATE
handleAuthorizeUser_Meanwhile ==
    /\ notify.pc = "admins"
    /\ GetAllAdmins # {}
    /\ \E target \in Users \cup {Newcomer} :
         \E grant \in BOOLEAN :
           users' = AuthorizeUser(target, grant)
    /\ UNCHANGED <<rev, tasks, bootstrap, done, registryVars, event, proxyVars,
                   addressVars, noticeVars>>

\* /authorize and /deauthorize from the admin check to the note.  Revisions
\* A and B look the target up again and send it a note before they confirm;
\* revision P drops the error of the UPDATE and sends no note
AdminCommand_Notify(kind) ==
    /\ command = NoCommand
    /\ \E user \in Users :
         \E args \in Args :
           \E grant \in IF kind = "authorize" THEN BOOLEAN ELSE {FALSE} :
             \E res \in {GetUserInfo(user), StorageFailure} :
               LET check == AdminCheck(rev, res)
                   parsed == ParseTarget(rev, args)
                   record == [kind |-> kind, user |-> user, err |-> res.err,
                              before |-> users,
                              pc |-> "returned", target |-> parsed.id,
                              grant |-> grant, updateErr |-> "none",
                              noteErr |-> "none", out |-> "none"]
               IN  IF check # "pass"
                     THEN /\ command' = [record EXCEPT !.out = check]
                          /\ users' = users
                   ELSE IF parsed.out # "go"
                     THEN /\ command' = [record EXCEPT !.out = parsed.out]
                          /\ users' = users
                   ELSE \E err \in {"nil", "StorageError"} :
                          \E lookupFails \in BOOLEAN :
                            LET after ==
                                  IF err # "nil" THEN users
                                  ELSE IF kind = "authorize"
                                    THEN AuthorizeUser(parsed.id,
                                                       AuthorizeGrant(record))
                                  ELSE DeauthorizeUser(DeauthorizeTarget(record))
                                found == \E r \in after : r.userID = parsed.id
                                noted == /\ rev \in {"A", "B"} /\ err = "nil"
                                         /\ found /\ ~lookupFails
                            IN  /\ users' = after
                                /\ command' =
                                     [record EXCEPT
                                        !.updateErr = err,
                                        !.pc = IF noted THEN "note"
                                               ELSE "returned",
                                        !.out = IF noted THEN "none"
                                                ELSE IF err # "nil"
                                                        /\ rev \in {"A", "B"}
                                                  THEN "failed"
                                                ELSE AuthorizeReply("none")]
    /\ UNCHANGED <<rev, tasks, bootstrap, done, registryVars, event, proxyVars,
                   addressVars, notify>>

handleAuthorizeUser_Notify == AdminCommand_Notify("authorize")

handleDeauthorizeUser_Notify == AdminCommand_Notify("deauthorize")

\* SendMessage to the target returns, with or without an error, and the
\* handler confirms to the admin.  The call has no deadline of its own
AdminCommand_Confirm ==
    /\ command.kind \in {"authorize", "deauthorize"} /\ command.pc = "note"
    /\ \E noteFails \in BOOLEAN :
         LET noteErr == IF noteFails THEN "SendError" ELSE "nil"
         IN  command' = [command EXCEPT !.pc = "returned",
                                        !.noteErr = noteErr,
                                        !.out = AuthorizeReply(noteErr)]
    /\ UNCHANGED <<storeVars, registryVars, event, proxyVars, addressVars,
                   notify>>

\* /listusers and /userinfo, from any user, the newcomer included
handleListUsers_Reply ==
    /\ command = NoCommand
    /\ \E user \in Users \cup {Newcomer} :
         \E res \in {GetUserInfo(user), StorageFailure} :
           command' = [kind |-> "list", user |-> user, err |-> res.err,
                       pc |-> "returned", before |-> users,
                       out |-> ListOutcome(res)]
    /\ UNCHANGED <<storeVars, registryVars, event, proxyVars, addressVars,
                   notify>>

handleUserInfo_Reply ==
    /\ command = NoCommand
    /\ \E user \in Users \cup {Newcomer} :
         \E args \in Args :
           \E res \in {GetUserInfo(user), StorageFailure} :
             \E tres \in {GetUserInfo(args.id), StorageFailure} :
               command' = [kind |-> "info", user |-> user, err |-> res.err,
                           pc |-> "returned", before |-> users,
                           out |-> InfoOutcome(args, res, tres)]
    /\ UNCHANGED <<storeVars, registryVars, event, proxyVars, addressVars,
                   notify>>

NoticeNext ==
    \/ handleStartCommand_Register
    \/ handleStartCommand_Reply
    \/ notifyAdminsAboutNewUser_GetAllAdmins
    \/ notifyAdminsAboutNewUser_Send
    \/ handleAuthorizeUser_Meanwhile
    \/ handleAuthorizeUser_Notify
    \/ handleDeauthorizeUser_Notify
    \/ AdminCommand_Confirm
    \/ handleListUsers_Reply
    \/ handleUserInfo_Reply

Notice == NoticeInit /\ [][NoticeNext]_vars

\* the handlers and the goroutine take their own steps; when, and whether,
\* a SendMessage to a target returns is up to the network
NoticeLive ==
    /\ Notice
    /\ WF_vars(handleStartCommand_Reply)
    /\ WF_vars(notifyAdminsAboutNewUser_GetAllAdmins)
    /\ WF_vars(notifyAdminsAboutNewUser_Send)

\* ---- what the claims read ------------------------------------------------
RowsOf(rows, userID) == {r \in rows : r.userID = userID}

FlagsOf(rows, userID) ==
    {<<r.isAuthorized, r.isAdmin>> : r \in RowsOf(rows, userID)}

\* the step in which the running handler me returns
Returns(me) == me \in Running /\ tasks' = tasks (-) SetToBag({me})

\* C1: at most one user is ever created as authorized admin through the
\* first-user rule, whatever the interleaving of /start handlers
C1_AtMostOneBootstrapAdmin == bootstrap <= 1

\* C2: the store holds at most one User record per userID, also after two
\* concurrent /start handlers for the same unseen user
C2_UserIDUnique ==
    \A r1 \in users : \A r2 \in users : r1.userID = r2.userID => r1 = r2

\* two /start handlers read "absent" for the same user; the second insert
\* met the row of the first
C2_Witness ==
    /\ done.kind = "start" /\ done.stage = "store"
    /\ ~done.exists /\ done.err = "Conflict"
    /\ RowsOf(users, done.user) # {}

\* C3: every user with isAdmin=true also has isAuthorized=true
C3_AdminImpliesAuthorized == \A r \in users : r.isAdmin => r.isAuthorized

\* an admin exists next to a user who has just been authorized without the
\* admin grant
C3_Witness ==
    /\ \E r \in users : r.isAdmin
    /\ \E r \in users : r.isAuthorized /\ ~r.isAdmin
    /\ done.kind = "authorize" /\ done.stage = "mutate" /\ done.err = "nil"
    /\ done.exists /\ ~done.grant

\* C4: an authorize or deauthorize whose acting user is not an admin ends
\* with the permission denial (the handler changes no flag on that path)
C4_NonAdminDenied ==
    (/\ done.kind \in {"authorize", "deauthorize"}
     /\ done.stage = "check"
     /\ ~done.actorAdmin
     /\ done.err # "StorageError")
    => done.out = "denied"

\* C5: the flags of a user change only when a /start creates the user (with
\* both flags set exactly when the first-user rule applied) or when the
\* UPDATE of an authorize/deauthorize runs whose acting user was an admin
\* at the handler's admin check
C5_FlagsChangeOnlyByAdminOrBootstrap ==
    [][\A u \in Users :
         FlagsOf(users, u) # FlagsOf(users', u) =>
           \/ \E me \in Running :
                /\ me.kind \in {"authorize", "deauthorize"} /\ me.pc = "mutate"
                /\ me.actorAdmin /\ me.target = u /\ Returns(me)
                /\ RowsOf(users, u) # {}
           \/ \E me \in Running :
                /\ me.kind = "start" /\ me.pc = "store" /\ me.user = u
                /\ ~me.existed /\ Returns(me)
                /\ RowsOf(users, u) = {}
                /\ FlagsOf(users', u) = {<<me.isFirst, me.isFirst>>}]_vars

\* an admin's authorize has just set the flags of an existing user
C5_Witness ==
    /\ done.kind = "authorize" /\ done.stage = "mutate" /\ done.out = "ok"
    /\ done.err = "nil" /\ done.exists /\ done.actorAdmin
    /\ \E r \in RowsOf(users, done.user) : r.isAuthorized

\* C6: after a deauthorize whose UPDATE succeeded the target is neither
\* authorized nor admin, whatever it was before
C6_DeauthorizeClearsBoth ==
    (/\ done.kind = "deauthorize" /\ done.stage = "mutate" /\ done.err = "nil")
    => \A r \in RowsOf(users, done.user) : ~r.isAuthorized /\ ~r.isAdmin

\* an admin has just been deauthorized
C6_Witness ==
    /\ done.kind = "deauthorize" /\ done.stage = "mutate" /\ done.err = "nil"
    /\ done.out = "ok" /\ done.exists /\ done.wasAdmin
    /\ \E r \in RowsOf(users, done.user) : ~r.isAuthorized /\ ~r.isAdmin

Demoted(u) ==
    /\ \E r \in RowsOf(users, u) : r.isAdmin
    /\ \E r \in RowsOf(users', u) : ~r.isAdmin

\* C7 as stated: isAdmin goes from true to false only in the UPDATE of a
\* deauthorize
C7_OnlyDeauthorizeDemotes ==
    [][\A u \in Users :
         Demoted(u) => \E me \in Running :
                         /\ me.kind = "deauthorize" /\ me.pc = "mutate"
                         /\ Returns(me)]_vars

\* C7 amended: isAdmin goes from true to false only in the UPDATE of a
\* deauthorize of that user or of an authorize of that user given without
\* the admin grant
C7_OnlyAdminActionDemotes ==
    [][\A u \in Users :
         Demoted(u) => \E me \in Running :
                         /\ me.pc = "mutate" /\ me.target = u /\ Returns(me)
                         /\ \/ me.kind = "deauthorize"
                            \/ me.kind = "authorize" /\ ~me.grant]_vars

\* an authorize without the admin grant has just taken admin from its target
C7_Witness ==
    /\ done.kind = "authorize" /\ done.stage = "mutate" /\ done.err = "nil"
    /\ ~done.grant /\ done.wasAdmin
    /\ \E r \in RowsOf(users, done.user) : r.isAuthorized /\ ~r.isAdmin

\* C8: a /start of a user who has a record changes no record and goes on
\* with the stored isAuthorized: welcome, plus the notice exactly when the
\* stored user is not authorized (or the error of the IsFirstUser call)
C8_RegisterIdempotent ==
    [][(done' # NoDone /\ done'.kind = "start" /\ done'.exists) =>
         /\ users' = users
         /\ \/ done'.stage = "first" /\ done'.out = "error"
            \/ /\ done'.stage = "reply"
               /\ \E r \in RowsOf(users, done'.user) :
                    done'.out = StartReply(r.isAuthorized)]_vars

\* a deauthorized former admin sends /start again while other users exist
C8_Witness ==
    /\ done.kind = "start" /\ done.exists /\ done.out = "welcome+notice"
    /\ bootstrap >= 1
    /\ \E r \in RowsOf(users, done.user) : ~r.isAuthorized
    /\ Cardinality(users) > 1

\* C9: a user created while the store is empty gets both flags, a user
\* created while a record exists gets neither
C9_FlagsAtCreation ==
    [][\A u \in Users :
         (RowsOf(users, u) = {} /\ RowsOf(users', u) # {}) =>
           FlagsOf(users', u) = {<<users = {}, users = {}>>}]_vars

\* C10: an admin's authorize for a userID without a record ends with a
\* not-found outcome
C10_AuthorizeMissingIsNotFound ==
    (/\ done.kind = "authorize" /\ done.stage = "mutate"
     /\ ~done.exists /\ done.err # "StorageError")
    => done.out = "notfound"

\* C11: a user who has a record has one after every step: no handler, the
\* deauthorize included, removes a record
C11_UsersNeverDeleted ==
    [][\A u \in Users : RowsOf(users, u) # {} => RowsOf(users', u) # {}]_vars

\* a user who was no admin has just been deauthorized and still has the
\* record, next to the record of another user
C11_Witness ==
    /\ done.kind = "deauthorize" /\ done.stage = "mutate" /\ done.err = "nil"
    /\ done.exists /\ ~done.wasAdmin
    /\ RowsOf(users, done.user) # {}
    /\ Cardinality(users) > 1

\* C24: a /start, authorize or deauthorize whose repository call failed
\* with a storage error ends with a failure: the returned error or the
\* failure reply, never the welcome or the confirmation
C24_StorageErrorAborts ==
    (/\ done.kind \in {"start", "authorize", "deauthorize"}
     /\ done.stage \in {"lookup", "first", "store", "mutate"}
     /\ done.err = "StorageError")
    => done.out \in {"error", "failed"}

\* C25: no handler ends in a panic: every command of every user, a user
\* without a record included, ends with a reply or a returned error
C25_NoHandlerPanics == done.out # "panic"

\* C12: a media update in the chat of a user who has no record or is not
\* authorized is answered with the denial and nothing else: no reply with
\* a URL, no publish call, nothing delivered to any session
C12_DeniedMediaOnlyDenial ==
    (/\ event # NoEvent /\ event.chat \in Users
     /\ event.err # "StorageError"
     /\ ~\E r \in RowsOf(users, event.chat) : r.isAuthorized)
    => /\ event.did = <<"denial">>
       /\ calls = {} /\ published = 0 /\ inbox = NoInbox

\* a user with a record who is not authorized sent media while a session
\* of the chat was connected, and got the denial
C12_Witness ==
    /\ event.did = <<"denial">> /\ event.chat \in Users
    /\ \E r \in RowsOf(users, event.chat) : ~r.isAuthorized
    /\ sessions[event.chat] # {}
    /\ published = 0

\* ---- what the registry claims read ---------------------------------------
CallIds(cs) == {r.id : r \in cs}

\* the publish calls that begin in this step
NewCalls == {r \in calls' : r.id \notin CallIds(calls)}

\* the sessions that hold payload id
Received(box, id) == {s \in Sessions : id \in box[s]}

\* C13: a publish call takes exactly the sessions registered for its chat
\* at the call, delivers to no session of another chat, and when no send
\* failed every one of those sessions holds the payload
C13_PublishReachesTheChat ==
    [][/\ \A r \in NewCalls : r.snap = sessions[r.chat]
       /\ \A r \in calls' :
            /\ \A s \in Received(inbox', r.id) :
                 ChatOf(s) = r.chat /\ s \in r.snap
            /\ (r.pending = {} /\ r.failed = {}) =>
                 r.snap \subseteq Received(inbox', r.id)]_vars

\* a publish has reached both sessions of a chat while a session of another
\* chat, registered too, holds nothing
C13_Witness ==
    \E r \in calls :
      /\ r.pending = {} /\ r.failed = {} /\ Cardinality(r.snap) >= 2
      /\ r.snap \subseteq Received(inbox, r.id)
      /\ \E s \in Sessions :
           ChatOf(s) # r.chat /\ s \in sessions[ChatOf(s)] /\ inbox[s] = {}

\* C14: a publish on a chat without sessions has nothing to send, returns
\* no error and changes neither the registry nor what any session holds
C14_PublishToNobody ==
    [][/\ \A r \in NewCalls :
            sessions[r.chat] = {} =>
              /\ r.pending = {} /\ r.err = "nil"
              /\ sessions' = sessions /\ inbox' = inbox
       /\ \A r \in calls' :
            r.snap = {} => r.err = "nil" /\ Received(inbox', r.id) = {}]_vars

\* a publish on a chat without sessions is about to return while another
\* chat has a session
C14_Witness ==
    \E r \in calls :
      /\ r.snap = {} /\ r.pending = {} /\ sessions[r.chat] = {}
      /\ \E c \in Users : sessions[c] # {}

\* C15: nothing is queued or replayed: a register or deregister step hands
\* no payload to anyone, and a payload reaches a session only in a send of
\* a publish call in progress that found the session registered
C15_NoReplay ==
    [][/\ sessions' # sessions => inbox' = inbox
       /\ \A s \in Sessions :
            \A id \in inbox'[s] \ inbox[s] :
              \E r \in calls : r.id = id /\ s \in r.pending]_vars

\* all publish calls have returned; a registered session holds nothing
\* while the other session of its chat holds a payload
C15_Witness ==
    /\ published >= 1 /\ calls = {}
    /\ \E s \in Sessions :
         /\ s \in sessions[ChatOf(s)] /\ inbox[s] = {}
         /\ \E s2 \in Sessions \ {s} :
              ChatOf(s2) = ChatOf(s) /\ inbox[s2] # {}

\* C16: a publish call goes on after a failed send: every session it found
\* is sent to, those whose send did not fail hold the payload when the call
\* returns, and the call returns no error
C16_SendFailureIsIsolated ==
    \A r \in calls :
      /\ r.err = "nil"
      /\ r.failed \cup r.pending \subseteq r.snap
      /\ r.snap \ (r.failed \cup r.pending) \subseteq Received(inbox, r.id)

\* a publish is about to return after one send failed and another reached
\* its session
C16_Witness ==
    \E r \in calls :
      /\ r.pending = {} /\ r.failed # {} /\ r.err = "nil"
      /\ \E s \in r.snap \ r.failed : r.id \in inbox[s]

\* C17: deregistering a session that is not registered leaves the registry
\* as it is, and deregistering twice gives what deregistering once gives
C17_DeregisterIdempotent ==
    \A chatID \in Users :
      \A s \in Sessions :
        LET once == Deregister(sessions, chatID, s)
        IN  /\ Deregister(once, chatID, s) = once
            /\ s \notin sessions[chatID] => once = sessions

\* a session that received a payload has been deregistered; the other
\* session of its chat is still registered
C17_Witness ==
    \E s \in Sessions :
      /\ inbox[s] # {} /\ s \notin sessions[ChatOf(s)]
      /\ \E s2 \in Sessions \ {s} : s2 \in sessions[ChatOf(s)]

\* C18: under every interleaving a step changes the session set of at most
\* one chat, by the one session registered or deregistered; no step of a
\* publish changes a session set; a publish delivers only to sessions that
\* were registered for its chat when it looked
C18_SessionSetNeverCorrupted ==
    [][/\ \A c \in Users :
            sessions'[c] # sessions[c] =>
              /\ \A c2 \in Users \ {c} : sessions'[c2] = sessions[c2]
              /\ \E s \in Sessions :
                   /\ ChatOf(s) = c
                   /\ \/ sessions'[c] = sessions[c] \cup {s}
                      \/ sessions'[c] = sessions[c] \ {s}
       /\ (calls' # calls \/ inbox' # inbox) => sessions' = sessions
       /\ \A r \in calls' : Received(inbox', r.id) \subseteq r.snap]_vars

\* a publish in progress has delivered to a session and the session set of
\* its chat has changed since it looked
C18_Witness ==
    \E r \in calls :
      /\ r.pending # {} /\ Received(inbox, r.id) # {}
      /\ r.snap # sessions[r.chat]

\* ---- what the proxy gate claims read -------------------------------------
IsLoopback(u) == u.host \in {Localhost, Loopback}

IsHttp(u) == u.scheme \in {"http", "https"}

\* addressed to the service itself: under its base URL, or to its port
IsOwn(u) == HasPrefix(Text(u), BaseURL) \/ u.port = Port

\* C19: the gate returns a loopback URL (host localhost or 127.0.0.1) and a
\* URL under the service's base URL as given
C19_LoopbackAndOwnUnchanged ==
    (proxiedURL # <<>> /\ (IsLoopback(fileURL) \/ HasPrefix(Text(fileURL), BaseURL)))
    => proxiedURL = Text(fileURL)

\* C20: the gate turns an http(s) URL that is neither loopback nor the
\* service's own into /proxy?url=<escaped URL>, and returns a URL of
\* another scheme as given
C20_ThirdPartyHttpIsProxied ==
    proxiedURL # <<>> =>
      /\ (IsHttp(fileURL) /\ ~IsLoopback(fileURL) /\ ~IsOwn(fileURL))
           => proxiedURL = ProxyPath \o QueryEscape(Text(fileURL))
      /\ ~IsHttp(fileURL) => proxiedURL = Text(fileURL)

\* ---- what the addressing claims read -------------------------------------
PackOf(file) ==
    PackFile(file.fileName, file.fileSize, file.mimeType, file.id)

\* C21: two media updates with the same file, message and chat get the same
\* URL, token included: nothing random or of the moment goes into it
C21_SameUpdateSameURL ==
    (links # <<>> /\ files[1] = files[2]) => links[1] = links[2]

\* C23: the packing is injective: two descriptors with the same packed bytes
\* are the same descriptor, so a character moved across a field boundary
\* changes the bytes
C23_PackInjective ==
    (links # <<>> /\ PackOf(files[1].file) = PackOf(files[2].file))
    => files[1].file = files[2].file

C23_Witness ==
    /\ links # <<>> /\ rev = "B"
    /\ files[1].file.fileName = <<"a", "1">> /\ files[1].file.fileSize = 2
    /\ files[2].file.fileName = <<"a">> /\ files[2].file.fileSize = 12
    /\ files[1].file.mimeType = files[2].file.mimeType
    /\ files[1].file.id = files[2].file.id
    /\ links[1].hash # links[2].hash

\* ---- what the notification claims read -----------------------------------
\* C26: a /start that stores a new user who is not the bootstrap admin starts
\* the notification, and the notification goes to every admin that its
\* lookup returned, the new user left out; a /start that stores the
\* bootstrap admin starts none
C26_NewUserNotifiesAdmins ==
    (command.kind = "start" /\ command.stored)
    => IF command.isAdmin
         THEN notify = NoNotify
         ELSE /\ notify # NoNotify
              /\ (notify.pc = "done" /\ notify.err = "nil")
                   => notify.sent = notify.admins \ {command.user}

\* C27: a notification that failed, at the lookup of the admins or at a
\* send, leaves the registration alone: the row of the new user stays and
\* the handler, its own replies sent, returns with the welcome
C27_NotifyFailureKeepsRegistration ==
    (/\ command.kind = "start" /\ command.stored
     /\ command.pc = "returned" /\ command.replyErr = "nil")
    => /\ command.out = StartReply(command.isAuthorized)
       /\ \E r \in users : r.userID = command.user

C27_Witness ==
    /\ command.kind = "start" /\ command.stored /\ command.pc = "returned"
    /\ notify.pc = "done" /\ (notify.err # "nil" \/ notify.failed # {})
    /\ command.out = "welcome+notice"
    /\ \E r \in users : r.userID = command.user

\* C28: a send that fails does not stop the loop: every admin of the lookup
\* but the new user is either sent the notification or still to come, and
\* once the loop is over every one of them has been sent it
C28_SendFailureDoesNotStopLoop ==
    (notify.pc \in {"send", "done"} /\ notify.err = "nil")
    => /\ notify.admins \ {notify.newUser}
            \subseteq notify.sent \cup notify.pending
       /\ notify.failed \subseteq notify.sent
       /\ notify.pc = "done" => notify.pending = {}

C28_Witness ==
    /\ notify.pc = "done" /\ notify.failed # {}
    /\ notify.sent \ notify.failed # {}
    /\ notify.sent = notify.admins

\* C29: once the UPDATE of an authorize went through, the target is
\* authorized with the admin flag as granted and the admin gets the
\* confirmation, whether the note to the target could be sent or not
C29_NoteFailureKeepsAuthorization ==
    (/\ command.kind = "authorize" /\ command.updateErr = "nil"
     /\ command.pc = "returned")
    => /\ command.out = "ok"
       /\ \A r \in users : r.userID = command.target
            => r.isAuthorized /\ r.isAdmin = command.grant

C29_Witness ==
    /\ command.kind = "authorize" /\ command.updateErr = "nil"
    /\ command.noteErr = "SendError" /\ command.out = "ok"
    /\ \E r \in users : /\ r.userID = command.target
                         /\ r.isAuthorized /\ r.isAdmin = command.grant

\* C30: whatever becomes of the forward to the log channel, the user gets
\* the replies and the push of the path the update took, and the process
\* lives on
C30_AuditDecoupled ==
    event # NoEvent
    => /\ event.did = MediaEffects(rev, event.out, event.replyFails)
       /\ ~event.crashed

\* C40: the gate is idempotent: the URL that went through it comes out of a
\* second pass as it is, the rewritten /proxy?url=... included
C40_WrapIdempotent ==
    proxiedURL # <<>> => wrapWithProxyIfNeeded(proxiedURL) = proxiedURL

C40_Witness ==
    /\ proxiedURL # <<>> /\ proxiedURL # Text(fileURL)
    /\ HasPrefix(proxiedURL, ProxyPath)
    /\ wrapWithProxyIfNeeded(proxiedURL) = proxiedURL

\* C39: a media update in a chat that is not a one-to-one user chat has no
\* effect: no reply, no forward to the log channel, no publish, and the
\* handler ends the handler groups
C39_GroupChatNoEffect ==
    (event # NoEvent /\ ~isUserChat(event.chat))
    => /\ event.out = "endgroups"
       /\ event.did = <<>>
       /\ event.audit = "off"
       /\ calls = {}

\* ---- what the media claims read ------------------------------------------
\* the publish comes after the reply with the URL, and not at all if that
\* reply failed
PublishAfterReply ==
    /\ Publishes(event.did)
         => /\ ~event.replyFails
            /\ \E i \in 1..Len(event.did) :
                 \E j \in 1..Len(event.did) :
                   /\ i < j /\ event.did[i] \in {"url", "link"}
                   /\ event.did[j] = "publish"
    /\ (event.out \in {"url", "link", "hostinglink"} /\ event.replyFails)
         => ~Publishes(event.did) /\ calls = {}

\* C36: within one media update the push is published only after the reply
\* with the URL was sent; if that reply fails nothing is published
C36_PublishAfterReply == event # NoEvent => PublishAfterReply

\* C36, amended: in revisions A and B the push is published only after the
\* reply with the URL was sent, and if that reply fails nothing is published
C36_PublishAfterReplyAB ==
    (event # NoEvent /\ rev \in {"A", "B"}) => PublishAfterReply

C36_Witness ==
    /\ rev = "A" /\ event.out = "url" /\ event.replyFails
    /\ event.did = <<"url">> /\ sessions[event.chat] # {}
    /\ calls = {}

\* the update came from a user the store has as authorized, the lookup and
\* the process held
FromAuthorized ==
    /\ event # NoEvent /\ isUserChat(event.chat)
    /\ event.err = "nil" /\ ~event.crashed
    /\ \E r \in users : r.userID = event.chat /\ r.isAuthorized

\* C34: an authorized user's update without an extractable file and with a
\* link in it is routed as native media is: the reply carries the link and
\* the payload is published for the chat
C34_LinkFallbackRouted ==
    (FromAuthorized /\ HasLink(event.kind))
    => /\ event.out \in {"link", "hostinglink"}
       /\ event.did[1] = "link"
       /\ ~event.replyFails => event.did[2] = "publish"

\* C35: an authorized user's update with neither an extractable file nor a
\* link gets the unsupported reply and nothing else: no URL, no publish
C35_NoMediaNoLinkUnsupported ==
    (FromAuthorized /\ event.kind \in {"emptyPage", "none"})
    => /\ event.did = <<"unsupported">>
       /\ calls = {}

\* C32: /listusers and /userinfo from a user who is not an admin get the
\* denial and no user data, and from any user leave the rows as they were
C32_ListInfoCheckedReadOnly ==
    command.kind \in {"list", "info"}
    => /\ (~\E r \in users : r.userID = command.user /\ r.isAdmin)
            => command.out = "denied"
       /\ users = command.before

\* C33: a /start registers, then sends the welcome with the entry URL
\* BaseURL/chatID, then the notice if and only if the user is not authorized
C33_StartOrder ==
    (/\ command.kind = "start" /\ command.pc = "returned"
     /\ command.out # "error")
    => /\ command.did = IF command.isAuthorized
                          THEN <<"register", "welcome">>
                          ELSE <<"register", "welcome", "notice">>
       /\ command.welcomeURL = BaseURL \o <<"/">> \o FormatInt(command.chatID)

\* C31: an authorize or deauthorize that is sending the note to its target
\* always gets to its reply to the admin, whether the note completes or not
C31_AdminAlwaysAnswered ==
    (command.kind \in {"authorize", "deauthorize"} /\ command.pc = "note")
    ~> (command.pc = "returned")

\* C37: a user whose row says deauthorized when the command begins, as a
\* completed deauthorize leaves it, is denied every authorize, deauthorize,
\* list and info command
C37_RevokedIsDenied ==
    (/\ command.kind \in {"authorize", "deauthorize", "list", "info"}
     /\ command.err # "StorageError"
     /\ \E r \in command.before : /\ r.userID = command.user
                                   /\ ~r.isAuthorized /\ ~r.isAdmin)
    => command.out = "denied"

\* ---- what the bootstrap claim reads --------------------------------------
NoAdmin == ~\E r \in users : r.isAdmin

\* a handler in flight that read the store when it was empty or when its
\* user was an admin, and has its write still to do
Stale ==
    \E t \in BagToSet(tasks) :
      \/ t.kind = "start" /\ t.pc = "store" /\ t.isFirst
      \/ t.kind = "authorize" /\ t.pc = "mutate" /\ t.grant

====
